---- MODULE Spec2Model ----
(***************************************************************************)
(* ETL data-integrity blockchain (Blockchain/blockchain.py) and the ledger *)
(* written by the ETL pipeline (ETL.py).                                   *)
(*                                                                         *)
(* A digest is a string of DigestLen characters over an alphabet of        *)
(* HexBase characters, modelled as a sequence of numbers 0..HexBase-1      *)
(* (SHA-256's hexdigest has 64 characters over 16).  Character 0 is '0'.   *)
(* Python's chain[i] is chain[i+1] here; Block.index keeps Python's value. *)
(***************************************************************************)
EXTENDS Integers, Sequences, FiniteSets, TLC

VARIABLES chain, file, ledger, now, ret, console, edits, blk, d, pc, df, out

vars == <<chain, file, ledger, now, ret, console, edits, blk, d, pc, df, out>>

\* ------------------------------------------------------------------ bounds
HexBase == 2
DigestLen == 5
MaxChain == 3
MaxTime == 2
MaxLedger == 1
MaxEdits == 2
MaxEntries == 2
MaxCells == 4

\* self.difficulty
Difficulty == 4


RECURSIVE Pow(_, _)
Pow(b, e) == IF e = 0 THEN 1 ELSE b * Pow(b, e - 1)

HashSpace == Pow(HexBase, DigestLen)

\* the mining loop's nonce is unbounded; the model stops following it here
MaxNonce == 2 * HashSpace

Min(a, b) == IF a <= b THEN a ELSE b

\* ------------------------------------------------------------------ hashing
RECURSIVE HexValue(_)
HexValue(s) ==
  IF s = <<>> THEN 0
  ELSE HexValue(SubSeq(s, 1, Len(s) - 1)) * HexBase + s[Len(s)]

\* the last k characters of the digest number n, most significant first
RECURSIVE HexChars(_, _)
HexChars(n, k) ==
  IF k = 0 THEN <<>> ELSE Append(HexChars(n \div HexBase, k - 1), n % HexBase)

\* hexdigest(): the digest number as DigestLen characters
HexDigest(n) == HexChars(n, DigestLen)

EmptyMeta ==
  [input_paths |-> <<>>, mode |-> "", rows |-> 0, cols |-> 0, etl_timestamp |-> 0]

PathCode(p) ==
  CASE p = "s1.csv" -> 1 [] p = "s2.csv" -> 2 [] OTHER -> 3

RECURSIVE PathsCode(_)
PathsCode(ps) ==
  IF ps = <<>> THEN 0
  ELSE PathCode(ps[1]) + 4 * PathsCode(SubSeq(ps, 2, Len(ps)))

MetaCode(m) ==
  PathsCode(m.input_paths) + (IF m.mode = "" THEN 0 ELSE 1)
    + 3 * m.rows + 5 * m.cols + 7 * m.etl_timestamp

\* the part of the hashed JSON text that comes from the "data" document
DataCode(x) ==
  (IF x.type = "genesis" THEN 1 ELSE 2) + 3 * x.s1 + 5 * x.s2 + 9 * x.dataset
    + 11 * x.timestamp_utc + 13 * MetaCode(x.etl_metadata)

\* the nonce left out of the hashed document
Sha256_NoNonce(index, data, previous_hash, timestamp, nonce) ==
  (13 * index + DataCode(data) + 3 * HexValue(previous_hash) + Len(previous_hash)
     + 5 * timestamp) % HashSpace

\* sha256 of json.dumps({index, data, previous_hash, timestamp, nonce}, sort_keys=True):
\* a function of exactly these five fields which, the other four fixed, takes
\* every digest value as the nonce runs over HashSpace consecutive integers
Sha256(index, data, previous_hash, timestamp, nonce) ==
  (13 * index + DataCode(data) + 3 * HexValue(previous_hash) + Len(previous_hash)
     + 5 * timestamp + 7 * nonce) % HashSpace

HashOf(b) == Sha256(b.index, b.data, b.previous_hash, b.timestamp, b.nonce)

calculate_hash(b) == HexDigest(HashOf(b))

\* ------------------------------------------------------------------ Block
\* timestamp is <<>> (None, the default) or <<t>>
Falsy(timestamp) == timestamp = <<>> \/ timestamp[1] = 0

\* self.timestamp = timestamp or time.time()
InitTimestamp(timestamp, clock) ==
  IF Falsy(timestamp) THEN clock ELSE timestamp[1]

Block(index, data, previous_hash, timestamp, clock) ==
  LET b0 == [index |-> index, data |-> data, previous_hash |-> previous_hash,
             timestamp |-> InitTimestamp(timestamp, clock), nonce |-> 0,
             hash |-> <<>>]
  IN [b0 EXCEPT !.hash = calculate_hash(b0)]

\* target = "0" * difficulty
Target(difficulty) == [i \in 1..difficulty |-> 0]

\* self.hash[:difficulty]
HashPrefix(b, difficulty) == SubSeq(b.hash, 1, Min(difficulty, Len(b.hash)))

\* the loop test of mine_block, negated
MeetsTarget(b, difficulty) == HashPrefix(b, difficulty) = Target(difficulty)

\* the hash taken before the nonce is incremented
MineStep_StaleHash(b) == [b EXCEPT !.nonce = @ + 1, !.hash = calculate_hash(b)]

\* one iteration of the loop body
MineStep(b) ==
  LET n == [b EXCEPT !.nonce = @ + 1]
  IN [n EXCEPT !.hash = calculate_hash(n)]

RECURSIVE mine_block(_, _)
mine_block(b, difficulty) ==
  IF MeetsTarget(b, difficulty) THEN b ELSE mine_block(MineStep(b), difficulty)

to_dict(b) ==
  [index |-> b.index, data |-> b.data, previous_hash |-> b.previous_hash,
   timestamp |-> b.timestamp, nonce |-> b.nonce, hash |-> b.hash]

\* ------------------------------------------------------------------ ETLBlockchain
Sentinel == <<0>>

GenesisData(clock) ==
  [type |-> "genesis", message |-> "ETL Data Integrity Blockchain Genesis Block",
   s1 |-> 0, s2 |-> 0, dataset |-> 0, timestamp_utc |-> clock,
   etl_metadata |-> EmptyMeta]

GenesisBlock(clock) == Block(0, GenesisData(clock), Sentinel, <<>>, clock)

\* the genesis block appended without mining
create_genesis_block_Unmined(c, clock) == Append(c, GenesisBlock(clock))

create_genesis_block(c, clock) ==
  Append(c, mine_block(GenesisBlock(clock), Difficulty))

get_latest_block(c) == c[Len(c)]

EtlData(s1_hash, s2_hash, dataset_hash, etl_metadata, clock) ==
  [type |-> "etl_data", message |-> "",
   s1 |-> s1_hash, s2 |-> s2_hash, dataset |-> dataset_hash,
   timestamp_utc |-> clock, etl_metadata |-> etl_metadata]

\* the new block linked to the sentinel instead of the latest block
NewBlock_SentinelPrev(c, data, clock) == Block(Len(c), data, Sentinel, <<>>, clock)

\* the new block numbered like the latest block
NewBlock_IndexOfLatest(c, data, clock) ==
  Block(get_latest_block(c).index, data, get_latest_block(c).hash, <<>>, clock)

NewBlock(c, data, clock) ==
  Block(Len(c), data, get_latest_block(c).hash, <<>>, clock)

\* the new block stored over the latest block
AppendBlock_ReplaceLast(c, b) == [c EXCEPT ![Len(c)] = b]

\* the new block put at the front of the list
AppendBlock_Prepend(c, b) == <<b>> \o c

AppendBlock(c, b) == Append(c, b)

\* is_chain_valid: <<TRUE>>, or <<FALSE, message, i>> with the line printed
RECURSIVE ValidFrom(_, _)
ValidFrom(c, i) ==
  IF i >= Len(c) THEN [val |-> TRUE, msg |-> "", at |-> <<>>]
  ELSE IF c[i + 1].hash # calculate_hash(c[i + 1])
       THEN [val |-> FALSE, msg |-> "Invalid hash at block", at |-> <<i>>]
  ELSE IF c[i + 1].previous_hash # c[i].hash
       THEN [val |-> FALSE, msg |-> "Invalid previous hash at block", at |-> <<i>>]
  ELSE ValidFrom(c, i + 1)

is_chain_valid(c) == ValidFrom(c, 1)

\* the chain file: `blockchain` the block objects its text holds, in order;
\* `closed` when the text runs to its end (the metadata object and the closing
\* brace), which is when json.loads accepts it
NoFile ==
  [exists |-> FALSE, closed |-> FALSE, blockchain |-> <<>>, total_blocks |-> 0,
   difficulty |-> 0, created_at |-> 0]

save_document(c, clock) ==
  [exists |-> TRUE, closed |-> TRUE,
   blockchain |-> [k \in 1..Len(c) |-> to_dict(c[k])],
   total_blocks |-> Len(c), difficulty |-> Difficulty, created_at |-> clock]

\* open(path, "w"): the file exists and is empty
TruncatedFile ==
  [exists |-> TRUE, closed |-> FALSE, blockchain |-> <<>>, total_blocks |-> 0,
   difficulty |-> 0, created_at |-> 0]

\* the text of doc cut after its first n block objects
PartialText(doc, n) ==
  [TruncatedFile EXCEPT !.blockchain = SubSeq(doc.blockchain, 1, n)]

LoadBlock(block_data, clock) ==
  LET b == Block(block_data.index, block_data.data, block_data.previous_hash,
                 <<block_data.timestamp>>, clock)
  IN [b EXCEPT !.nonce = block_data.nonce, !.hash = block_data.hash]

BlockKeys == {"index", "data", "previous_hash", "timestamp", "nonce", "hash"}

\* block_data[...] raises KeyError for a key the object lacks
HasKeys(block_data) == BlockKeys \subseteq DOMAIN block_data

\* the number of leading block objects the loop of load_blockchain gets through
RECURSIVE LoadedCount(_, _)
LoadedCount(records, k) ==
  IF k > Len(records) \/ ~HasKeys(records[k]) THEN k - 1
  ELSE LoadedCount(records, k + 1)

\* self.chain after the loop, run to its end or to the KeyError
load_chain(doc, clock) ==
  [k \in 1..LoadedCount(doc.blockchain, 1) |-> LoadBlock(doc.blockchain[k], clock)]

\* the chain, the return value or exception, and the line printed
LoadResult(c, doc, clock) ==
  IF ~doc.exists
  THEN [chain |-> c, val |-> <<FALSE>>, exc |-> "", msg |-> "Blockchain file not found"]
  ELSE IF ~doc.closed
  THEN [chain |-> c, val |-> <<>>, exc |-> "JSONDecodeError", msg |-> ""]
  ELSE IF LoadedCount(doc.blockchain, 1) < Len(doc.blockchain)
  THEN [chain |-> load_chain(doc, clock), val |-> <<>>, exc |-> "KeyError", msg |-> ""]
  ELSE [chain |-> load_chain(doc, clock), val |-> <<TRUE>>, exc |-> "",
        msg |-> "Blockchain loaded from"]

Ret(op, val, exc) == [op |-> op, val |-> val, exc |-> exc]

Line(msg, arg) == [msg |-> msg, arg |-> arg]

IdleBlock == GenesisBlock(1)

MineIdle == /\ blk = IdleBlock /\ d = 0 /\ pc = "idle"

\* no DataFrame at hand
NoFrame == [cols |-> <<>>, rows |-> <<>>]

CanonIdle == /\ df = NoFrame /\ out = <<>>

\* the chain file an earlier run of the program left: its chain, constructed
\* at time t and saved
EarlierFile(t) == save_document(create_genesis_block(<<>>, t), t)

Init ==
  /\ now \in 1..MaxTime
  /\ chain = create_genesis_block(<<>>, now)
  /\ file \in {NoFile} \cup {EarlierFile(t) : t \in 1..now}
  /\ ledger = [exists |-> FALSE, entries |-> <<>>]
  /\ ret = Ret("__init__", <<>>, "")
  /\ console = Line("Block mined", chain[1].hash)
  /\ edits = 0
  /\ MineIdle
  /\ CanonIdle

Tick ==
  /\ now < MaxTime
  /\ now' = now + 1
  /\ UNCHANGED <<chain, file, ledger, ret, console, edits, blk, d, pc>>
  /\ UNCHANGED <<df, out>>

\* `etl_metadata or {}`; etl_metadata is <<>> (None, the default) or <<m>>
MetaOrEmpty(etl_metadata) ==
  IF etl_metadata = <<>> \/ etl_metadata[1] = EmptyMeta THEN EmptyMeta
  ELSE etl_metadata[1]

\* the chain and the result of add_etl_data_block; get_latest_block raises
\* IndexError on an empty chain
AddResult(c, s1_hash, s2_hash, dataset_hash, etl_metadata, clock) ==
  IF c = <<>> THEN [chain |-> c, val |-> <<>>, exc |-> "IndexError"]
  ELSE LET data == EtlData(s1_hash, s2_hash, dataset_hash, MetaOrEmpty(etl_metadata), clock)
           new_block == mine_block(NewBlock(c, data, clock), Difficulty)
       IN [chain |-> AppendBlock(c, new_block), val |-> <<new_block>>, exc |-> ""]

\* the digests handed to add_etl_data_block, and the ones the ETL run computes
MainDigests == [s1 |-> 1, s2 |-> 2, dataset |-> 3]

EtlDigests == [s1 |-> 4, s2 |-> 5, dataset |-> 6]

add_etl_data_block ==
  /\ Len(chain) < MaxChain
  /\ \E r \in {AddResult(chain, MainDigests.s1, MainDigests.s2, MainDigests.dataset,
                         <<>>, now)} :
       /\ chain' = r.chain
       /\ ret' = Ret("add_etl_data_block", r.val, r.exc)
       /\ console' = IF r.exc = "" THEN Line("Block mined", r.val[1].hash) ELSE console
  /\ UNCHANGED <<file, ledger, now, edits, blk, d, pc>>
  /\ UNCHANGED <<df, out>>

\* ------------------------------------------------------------------ ETL.py: the ledger
Paths == {"s1.csv", "s2.csv", "x.csv"}

\* `name in path`
PathContains(path, name) == path = name

LedgerEntry(csv1, csv2, hash1, hash2, dataset_hash, clock) ==
  [timestamp_utc |-> clock,
   input_paths |-> <<csv1, csv2>>,
   extraction_hashes |-> <<[path |-> csv1, sha256 |-> hash1],
                           [path |-> csv2, sha256 |-> hash2]>>,
   mode |-> "union", rows |-> 1, cols |-> 1,
   deterministic_dataset_sha256 |-> dataset_hash]

etl ==
  /\ Len(ledger.entries) < MaxLedger
  /\ \E csv1 \in {"s1.csv", "x.csv"} :
       LET ledger_entries == IF ledger.exists THEN ledger.entries ELSE <<>>
           entry == LedgerEntry(csv1, "s2.csv", EtlDigests.s1, EtlDigests.s2,
                                EtlDigests.dataset, now)
       IN ledger' = [exists |-> TRUE, entries |-> Append(ledger_entries, entry)]
  /\ UNCHANGED <<chain, file, now, ret, console, edits, blk, d, pc>>
  /\ UNCHANGED <<df, out>>

\* a default digest instead of StopIteration when no path matches
RECURSIVE FirstHash_Default(_, _)
FirstHash_Default(extraction_hashes, name) ==
  IF extraction_hashes = <<>> THEN <<0>>
  ELSE IF PathContains(extraction_hashes[1].path, name)
       THEN <<extraction_hashes[1].sha256>>
  ELSE FirstHash_Default(SubSeq(extraction_hashes, 2, Len(extraction_hashes)), name)

\* next(h["sha256"] for h in extraction_hashes if name in h["path"]):
\* <<sha256>> of the first match, <<>> when there is none (StopIteration)
RECURSIVE FirstHash(_, _)
FirstHash(extraction_hashes, name) ==
  IF extraction_hashes = <<>> THEN <<>>
  ELSE IF PathContains(extraction_hashes[1].path, name)
       THEN <<extraction_hashes[1].sha256>>
  ELSE FirstHash(SubSeq(extraction_hashes, 2, Len(extraction_hashes)), name)

LedgerMeta(latest_entry) ==
  [input_paths |-> latest_entry.input_paths, mode |-> latest_entry.mode,
   rows |-> latest_entry.rows, cols |-> latest_entry.cols,
   etl_timestamp |-> latest_entry.timestamp_utc]

\* the keys of a ledger entry that add_block_from_ledger reads ("etl" is
\* `mode` here, "output" is `rows`, `cols` and the dataset digest)
LedgerKeys ==
  {"timestamp_utc", "input_paths", "extraction_hashes", "mode", "rows", "cols",
   "deterministic_dataset_sha256"}

\* the first entry taken for the most recent one
LatestEntry_First(ledger_data) == ledger_data[1]

\* ledger_data[-1]
LatestEntry(ledger_data) == ledger_data[Len(ledger_data)]

LedgerAddResult(c, l, clock) ==
  IF ~l.exists THEN [chain |-> c, val |-> <<>>, exc |-> "FileNotFoundError"]
  ELSE IF l.entries = <<>> THEN [chain |-> c, val |-> <<>>, exc |-> "IndexError"]
  ELSE LET latest_entry == LatestEntry(l.entries)
           s1_hash == FirstHash(latest_entry.extraction_hashes, "s1.csv")
           s2_hash == FirstHash(latest_entry.extraction_hashes, "s2.csv")
       IN IF "extraction_hashes" \notin DOMAIN latest_entry
          THEN [chain |-> c, val |-> <<>>, exc |-> "KeyError"]
          ELSE IF s1_hash = <<>> \/ s2_hash = <<>>
          THEN [chain |-> c, val |-> <<>>, exc |-> "StopIteration"]
          ELSE IF ~(LedgerKeys \subseteq DOMAIN latest_entry)
          THEN [chain |-> c, val |-> <<>>, exc |-> "KeyError"]
          ELSE AddResult(c, s1_hash[1], s2_hash[1],
                         latest_entry.deterministic_dataset_sha256,
                         <<LedgerMeta(latest_entry)>>, clock)

add_block_from_ledger ==
  /\ Len(chain) < MaxChain
  /\ \E r \in {LedgerAddResult(chain, ledger, now)} :
        /\ chain' = r.chain
        /\ ret' = Ret("add_block_from_ledger", r.val, r.exc)
        /\ console' = IF r.exc = "" THEN Line("Block mined", r.val[1].hash) ELSE console
  /\ UNCHANGED <<file, ledger, now, edits, blk, d, pc>>
  /\ UNCHANGED <<df, out>>

\* ------------------------------------------------------------------ validate, save, load
ValidateReturn(c) == <<is_chain_valid(c).val>>

validate ==
  /\ ret' = Ret("is_chain_valid", ValidateReturn(chain), "")
  /\ \E r \in {is_chain_valid(chain)} :
       console' = IF r.val THEN console ELSE Line(r.msg, r.at)
  /\ UNCHANGED <<chain, file, ledger, now, edits, blk, d, pc>>
  /\ UNCHANGED <<df, out>>

save_blockchain ==
  /\ file' = save_document(chain, now)
  /\ ret' = Ret("save_blockchain", <<>>, "")
  /\ console' = Line("Blockchain saved to", <<>>)
  /\ UNCHANGED <<chain, ledger, now, edits, blk, d, pc>>
  /\ UNCHANGED <<df, out>>

load_blockchain ==
  /\ \E r \in {LoadResult(chain, file, now)} :
       /\ chain' = r.chain
       /\ ret' = Ret("load_blockchain", r.val, r.exc)
       /\ console' = IF r.msg = "" THEN console ELSE Line(r.msg, <<>>)
  /\ UNCHANGED <<file, ledger, now, edits, blk, d, pc>>
  /\ UNCHANGED <<df, out>>

Next ==
  \/ Tick
  \/ add_etl_data_block
  \/ etl
  \/ add_block_from_ledger
  \/ validate
  \/ save_blockchain
  \/ load_blockchain

Spec == Init /\ [][Next]_vars

\* ------------------------------------------------------------------ edits from outside
\* Block and chain are plain mutable objects: any holder of the chain can assign
\* a field of a block (block.nonce = ...), or recompute its hash without mining.
Fields == BlockKeys

NextDigest(h) == HexDigest((HexValue(h) + 1) % HashSpace)

\* the values an edit may give field f of block b
FieldValues(b, f) ==
  CASE f = "index" -> {b.index + 1}
    [] f = "data" -> {[b.data EXCEPT !.dataset = 0]}
    [] f = "previous_hash" -> {Sentinel, NextDigest(b.previous_hash)}
    [] f = "timestamp" -> {0, b.timestamp + 1}
    [] f = "nonce" -> {b.nonce + 1}
    [] OTHER -> {NextDigest(b.hash)}

SetBlockField(b, f, v) ==
  CASE f = "index" -> [b EXCEPT !.index = v]
    [] f = "data" -> [b EXCEPT !.data = v]
    [] f = "previous_hash" -> [b EXCEPT !.previous_hash = v]
    [] f = "timestamp" -> [b EXCEPT !.timestamp = v]
    [] f = "nonce" -> [b EXCEPT !.nonce = v]
    [] OTHER -> [b EXCEPT !.hash = v]

GetBlockField(b, f) ==
  CASE f = "index" -> b.index
    [] f = "data" -> b.data
    [] f = "previous_hash" -> b.previous_hash
    [] f = "timestamp" -> b.timestamp
    [] f = "nonce" -> b.nonce
    [] OTHER -> b.hash

\* chain[k-1].f = v, v a different value
SetField ==
  /\ edits < MaxEdits
  /\ \E k \in 1..Len(chain), f \in Fields :
       \E v \in FieldValues(chain[k], f) :
         /\ v # GetBlockField(chain[k], f)
         /\ chain' = [chain EXCEPT ![k] = SetBlockField(@, f, v)]
         /\ ret' = Ret("setattr", <<k - 1, f>>, "")
  /\ edits' = edits + 1
  /\ UNCHANGED <<file, ledger, now, console, blk, d, pc>>
  /\ UNCHANGED <<df, out>>

\* chain[k-1].hash = chain[k-1].calculate_hash()
Rehash ==
  /\ edits < MaxEdits
  /\ \E k \in 1..Len(chain) :
       /\ chain[k].hash # calculate_hash(chain[k])
       /\ chain' = [chain EXCEPT ![k].hash = calculate_hash(chain[k])]
       /\ ret' = Ret("setattr", <<k - 1, "hash">>, "")
  /\ edits' = edits + 1
  /\ UNCHANGED <<file, ledger, now, console, blk, d, pc>>
  /\ UNCHANGED <<df, out>>

NextTamper ==
  \/ add_etl_data_block
  \/ validate
  \/ save_blockchain
  \/ load_blockchain
  \/ SetField
  \/ Rehash

SpecTamper == Init /\ [][NextTamper]_vars

\* ------------------------------------------------------------------ mine_block, step by step
FreshBlocks ==
  { Block(i, x, p, <<>>, t) :
      i \in 0..1,
      x \in {GenesisData(1),
              EtlData(MainDigests.s1, MainDigests.s2, MainDigests.dataset, EmptyMeta, 1)},
      p \in {Sentinel, HexDigest(0), HexDigest(1)},
      t \in 1..MaxTime }

\* a freshly constructed block on which mine_block(d) is called
InitMine ==
  /\ now = 1
  /\ chain = <<>>
  /\ file = NoFile
  /\ ledger = [exists |-> FALSE, entries |-> <<>>]
  /\ ret = Ret("Block", <<>>, "")
  /\ console = Line("", <<>>)
  /\ edits = 0
  /\ blk \in FreshBlocks
  /\ d \in 0..(DigestLen + 1)
  /\ pc = "loop"
  /\ CanonIdle

\* while self.hash[:difficulty] != target: one iteration
MineLoop ==
  /\ pc = "loop"
  /\ ~MeetsTarget(blk, d)
  /\ blk.nonce < MaxNonce
  /\ blk' = MineStep(blk)
  /\ UNCHANGED <<chain, file, ledger, now, ret, console, edits, d, pc>>
  /\ UNCHANGED <<df, out>>

\* the loop test fails: print and return
MineExit ==
  /\ pc = "loop"
  /\ MeetsTarget(blk, d)
  /\ pc' = "done"
  /\ console' = Line("Block mined", blk.hash)
  /\ ret' = Ret("mine_block", <<>>, "")
  /\ UNCHANGED <<chain, file, ledger, now, edits, blk, d>>
  /\ UNCHANGED <<df, out>>

NextMine == MineLoop \/ MineExit

\* mine_block runs in the calling thread without suspension: the loop keeps
\* running while it can
SpecMine == InitMine /\ [][NextMine]_vars /\ WF_vars(NextMine)

\* ------------------------------------------------------------------ the chain file
\* path.write_text(text): the file is opened for writing, which empties it, the
\* text (made from the chain before the file is opened) is written to it piece
\* by piece, and the file is closed.  An error or an interrupt can end the call
\* between any two of these steps.
SaveOpen ==
  /\ pc = "idle"
  /\ pc' = "write_text"
  /\ file' = TruncatedFile
  /\ UNCHANGED <<chain, ledger, now, ret, console, edits, blk, d>>
  /\ UNCHANGED <<df, out>>

SaveWrite ==
  /\ pc = "write_text"
  /\ IF Len(file.blockchain) < Len(chain)
     THEN /\ file' = PartialText(save_document(chain, now), Len(file.blockchain) + 1)
          /\ UNCHANGED <<ret, console, pc>>
     ELSE /\ file' = save_document(chain, now)
          /\ ret' = Ret("save_blockchain", <<>>, "")
          /\ console' = Line("Blockchain saved to", <<>>)
          /\ pc' = "idle"
  /\ UNCHANGED <<chain, ledger, now, edits, blk, d>>
  /\ UNCHANGED <<df, out>>

SaveInterrupt ==
  /\ pc = "write_text"
  /\ pc' = "idle"
  /\ ret' = Ret("save_blockchain", <<>>, "OSError")
  /\ UNCHANGED <<chain, file, ledger, now, console, edits, blk, d>>
  /\ UNCHANGED <<df, out>>

\* the chain file is a JSON document other programs can write: a block object
\* without one of its keys
DropKey(block_data, key) == [x \in DOMAIN block_data \ {key} |-> block_data[x]]

FileDropKey ==
  /\ pc = "idle"
  /\ edits < MaxEdits
  /\ file.exists
  /\ file.closed
  /\ LoadedCount(file.blockchain, 1) = Len(file.blockchain)
  /\ \E k \in 1..Len(file.blockchain), key \in BlockKeys :
       file' = [file EXCEPT !.blockchain[k] = DropKey(@, key)]
  /\ edits' = edits + 1
  /\ UNCHANGED <<chain, ledger, now, ret, console, blk, d, pc>>
  /\ UNCHANGED <<df, out>>

\* a well-formed document whose "blockchain" array is empty
FileEmptyArray ==
  /\ pc = "idle"
  /\ edits < MaxEdits
  /\ file.exists
  /\ file.closed
  /\ file.blockchain # <<>>
  /\ file' = [file EXCEPT !.blockchain = <<>>, !.total_blocks = 0]
  /\ edits' = edits + 1
  /\ UNCHANGED <<chain, ledger, now, ret, console, blk, d, pc>>
  /\ UNCHANGED <<df, out>>

NextFile ==
  \/ (pc = "idle" /\ Tick)
  \/ (pc = "idle" /\ add_etl_data_block)
  \/ (pc = "idle" /\ load_blockchain)
  \/ SaveOpen
  \/ SaveWrite
  \/ SaveInterrupt
  \/ FileDropKey
  \/ FileEmptyArray

SpecFile == Init /\ [][NextFile]_vars

\* ------------------------------------------------------------------ the ledger file
\* The ledger is a JSON file the ETL stage and other programs write: the
\* entries of earlier ETL runs on other inputs, entries without a key, an
\* empty list.
OtherDigests == [s1 |-> 7, s2 |-> 8, dataset |-> 9]

RunEntry(csv1, h, clock) == LedgerEntry(csv1, "s2.csv", h.s1, h.s2, h.dataset, clock)

LedgerEntries ==
  {RunEntry("s1.csv", EtlDigests, 1), RunEntry("s1.csv", OtherDigests, 2),
   RunEntry("x.csv", EtlDigests, 1)}
  \cup {DropKey(RunEntry("s1.csv", EtlDigests, 1), key) :
          key \in {"extraction_hashes", "rows"}}

RECURSIVE SeqsUpTo(_, _)
SeqsUpTo(S, n) ==
  IF n = 0 THEN {<<>>}
  ELSE LET shorter == SeqsUpTo(S, n - 1)
       IN shorter \cup {Append(q, x) : q \in shorter, x \in S}

Ledgers ==
  {[exists |-> FALSE, entries |-> <<>>]}
  \cup {[exists |-> TRUE, entries |-> q] : q \in SeqsUpTo(LedgerEntries, MaxEntries)}

InitLedger ==
  /\ now \in 1..MaxTime
  /\ chain = create_genesis_block(<<>>, now)
  /\ file = NoFile
  /\ ledger \in Ledgers
  /\ ret = Ret("__init__", <<>>, "")
  /\ console = Line("Block mined", chain[1].hash)
  /\ edits = 0
  /\ MineIdle
  /\ CanonIdle

NextLedger ==
  \/ Tick
  \/ etl
  \/ add_block_from_ledger
  \/ add_etl_data_block

SpecLedger == InitLedger /\ [][NextLedger]_vars

\* ------------------------------------------------------------------ ETL.py: deterministic_csv_bytes
\* A DataFrame is its column labels in order and its rows in order, a row
\* holding one cell per column.  A cell is a null (None, NaN, NaT), a string
\* (`text`, its characters), a float64 number (`n` halves, with its sign bit
\* `neg`: 0.0 and -0.0 are two cells) or a UTC timestamp (`n` seconds).  The
\* non-null cells of a column are of one kind, as in the frames read_csv and
\* to_datetime make; integers are the numbers with no fractional part.
ColumnNames == <<"a", "b">>

Null == [kind |-> "null", text |-> <<>>, neg |-> FALSE, n |-> 0]

Str(text) == [kind |-> "str", text |-> text, neg |-> FALSE, n |-> 0]

Num(neg, n) == [kind |-> "num", text |-> <<>>, neg |-> neg, n |-> n]

Ts(n) == [kind |-> "ts", text |-> <<>>, neg |-> FALSE, n |-> n]

Cells ==
  {Null, Str(<<>>), Str(<<"0">>), Num(FALSE, 0), Num(TRUE, 0), Num(FALSE, 1), Ts(1)}

Range(q) == {q[i] : i \in 1..Len(q)}

ColumnKinds(frame, j) ==
  {frame.rows[i][j].kind : i \in 1..Len(frame.rows)} \ {"null"}

Homogeneous(frame) ==
  \A j \in 1..Len(frame.cols) : Cardinality(ColumnKinds(frame, j)) <= 1

ColumnOrders ==
  {q \in SeqsUpTo(Range(ColumnNames), Len(ColumnNames)) :
     q # <<>> /\ Cardinality(Range(q)) = Len(q)}

Frames ==
  UNION { { f \in [cols : {c},
                   rows : UNION {[1..r -> [1..Len(c) -> Cells]] :
                                   r \in 0..(MaxCells \div Len(c))}] :
              Homogeneous(f) } : c \in ColumnOrders }

\* the code points of the characters the texts are made of
CharCode(c) ==
  CASE c = "\n" -> 10 [] c = "\"" -> 34 [] c = "+" -> 43 [] c = "," -> 44
    [] c = "-" -> 45 [] c = "." -> 46 [] c = "0" -> 48 [] c = "1" -> 49
    [] c = "2" -> 50 [] c = "3" -> 51 [] c = "4" -> 52 [] c = "5" -> 53
    [] c = "6" -> 54 [] c = "7" -> 55 [] c = "8" -> 56 [] c = "9" -> 57
    [] c = ":" -> 58 [] c = "T" -> 84 [] c = "a" -> 97 [] c = "b" -> 98

\* sorted(df.columns): the labels in lexicographic order
SortedColumns(cols) == SelectSeq(ColumnNames, LAMBDA name : name \in Range(cols))

Position(cols, name) == CHOOSE j \in 1..Len(cols) : cols[j] = name

\* df.reindex(columns, axis=1)
reindex(frame, columns) ==
  [cols |-> columns,
   rows |-> [i \in 1..Len(frame.rows) |->
               [j \in 1..Len(columns) |->
                  frame.rows[i][Position(frame.cols, columns[j])]]]]

\* str < str
RECURSIVE TextLess(_, _)
TextLess(s, t) ==
  IF t = <<>> THEN FALSE
  ELSE IF s = <<>> THEN TRUE
  ELSE IF CharCode(s[1]) # CharCode(t[1]) THEN CharCode(s[1]) < CharCode(t[1])
  ELSE TextLess(Tail(s), Tail(t))

\* twice the number's value; -0.0 and 0.0 are the same value
Signed(x) == IF x.neg THEN 0 - x.n ELSE x.n

\* the order of the values of one column, nulls first (na_position="first")
CellBefore(x, y) ==
  IF x.kind = "null" THEN y.kind # "null"
  ELSE IF y.kind = "null" THEN FALSE
  ELSE IF x.kind = "str" THEN TextLess(x.text, y.text)
  ELSE IF x.kind = "num" THEN Signed(x) < Signed(y)
  ELSE x.n < y.n

\* the order by=sort_cols gives the rows: the first column that tells them apart
RowBefore(r1, r2) ==
  \E j \in 1..Len(r1) :
    /\ CellBefore(r1[j], r2[j])
    /\ \A k \in 1..(j - 1) : ~CellBefore(r1[k], r2[k]) /\ ~CellBefore(r2[k], r1[k])

\* a row that ties with a row already placed is left out
InsertRow_Unique(sorted, row) ==
  LET ahead == Cardinality({i \in 1..Len(sorted) : ~RowBefore(row, sorted[i])})
  IN IF \E i \in 1..Len(sorted) : ~RowBefore(row, sorted[i]) /\ ~RowBefore(sorted[i], row)
     THEN sorted
     ELSE SubSeq(sorted, 1, ahead) \o <<row>> \o SubSeq(sorted, ahead + 1, Len(sorted))

\* the rows that are not before the new one stay ahead of it (a stable sort)
InsertRow(sorted, row) ==
  LET ahead == Cardinality({i \in 1..Len(sorted) : ~RowBefore(row, sorted[i])})
  IN SubSeq(sorted, 1, ahead) \o <<row>> \o SubSeq(sorted, ahead + 1, Len(sorted))

\* sort_values(by=sort_cols, kind="mergesort", na_position="first")
RECURSIVE sort_values(_)
sort_values(rows) ==
  IF rows = <<>> THEN <<>>
  ELSE InsertRow(sort_values(SubSeq(rows, 1, Len(rows) - 1)), rows[Len(rows)])

\* convert_dtypes(): a float64 column whose values all are whole numbers
\* becomes Int64
IntegerColumn(rows, j) ==
  \A i \in 1..Len(rows) : rows[i][j].kind = "num" => rows[i][j].n % 2 = 0

Digit(k) == <<"0", "1", "2", "3", "4", "5", "6", "7", "8", "9">>[k + 1]

RECURSIVE Digits(_)
Digits(k) == IF k < 10 THEN <<Digit(k)>> ELSE Append(Digits(k \div 10), Digit(k % 10))

\* str() of an Int64 value
IntText(x) ==
  (IF x.neg /\ x.n > 0 THEN <<"-">> ELSE <<>>) \o Digits(x.n \div 2)

\* str() of a float value
FloatText(x) ==
  (IF x.neg THEN <<"-">> ELSE <<>>) \o Digits(x.n \div 2) \o <<".">>
    \o (IF x.n % 2 = 1 THEN <<"5">> ELSE <<"0">>)

\* date_format="%Y-%m-%dT%H:%M:%S%z" of a UTC timestamp within the first minute
TsText(x) ==
  <<"1", "9", "7", "0", "-", "0", "1", "-", "0", "1", "T", "0", "0", ":", "0", "0", ":">>
    \o (IF x.n < 10 THEN <<"0">> ELSE <<>>) \o Digits(x.n) \o <<"+", "0", "0", "0", "0">>

\* the text to_csv gives a cell; na_rep=""
CellText(x, integer_column) ==
  IF x.kind = "null" THEN <<>>
  ELSE IF x.kind = "str" THEN x.text
  ELSE IF x.kind = "num" THEN (IF integer_column THEN IntText(x) ELSE FloatText(x))
  ELSE TsText(x)

RECURSIVE JoinFields(_)
JoinFields(fields) ==
  IF Len(fields) = 1 THEN fields[1]
  ELSE fields[1] \o <<",">> \o JoinFields(Tail(fields))

\* csv.writer, QUOTE_MINIMAL, on fields without delimiter, quote or line break:
\* a record that would be empty is written as ""
CsvLine(fields) ==
  IF Len(fields) = 1 /\ fields[1] = <<>> THEN <<"\"", "\"">>
  ELSE JoinFields(fields)

RECURSIVE JoinLines(_)
JoinLines(lines) ==
  IF lines = <<>> THEN <<>>
  ELSE lines[1] \o <<"\n">> \o JoinLines(Tail(lines))

RowLine(rows, i) ==
  CsvLine([j \in 1..Len(rows[i]) |-> CellText(rows[i][j], IntegerColumn(rows, j))])

\* to_csv(buf, index=False, lineterminator="\n", ...)
to_csv(frame) ==
  JoinLines(<<CsvLine([j \in 1..Len(frame.cols) |-> <<frame.cols[j]>>])>>
            \o [i \in 1..Len(frame.rows) |-> RowLine(frame.rows, i)])

\* .encode("utf-8")
Encode(text) == [i \in 1..Len(text) |-> CharCode(text[i])]

deterministic_csv_bytes(frame) ==
  LET df_sorted_cols == reindex(frame, SortedColumns(frame.cols))
      df_sorted == [df_sorted_cols EXCEPT !.rows = sort_values(@)]
  IN Encode(to_csv(df_sorted))

\* the frames the pipeline can hand over: rows and columns in any order,
\* any cell, with or without the duplicates dropped
InitCanon ==
  /\ now = 1
  /\ chain = <<>>
  /\ file = NoFile
  /\ ledger = [exists |-> FALSE, entries |-> <<>>]
  /\ ret = Ret("DataFrame", <<>>, "")
  /\ console = Line("", <<>>)
  /\ edits = 0
  /\ MineIdle
  /\ df \in Frames
  /\ out = <<>>

Others == <<chain, file, ledger, now, ret, console, edits, blk, d, pc>>

canonicalize ==
  /\ out = <<>>
  /\ out' = deterministic_csv_bytes(df)
  /\ UNCHANGED <<df, Others>>

SwapRows(frame, i) ==
  [frame EXCEPT !.rows[i] = frame.rows[i + 1], !.rows[i + 1] = frame.rows[i]]

\* the same rows in another order
shuffle_rows ==
  /\ \E i \in 1..(Len(df.rows) - 1) :
       /\ df.rows[i] # df.rows[i + 1]
       /\ df' = SwapRows(df, i)
  /\ out' = <<>>
  /\ UNCHANGED Others

SwapColumns(frame, j) ==
  LET swap(q) == [q EXCEPT ![j] = q[j + 1], ![j + 1] = q[j]]
  IN [cols |-> swap(frame.cols),
      rows |-> [i \in 1..Len(frame.rows) |-> swap(frame.rows[i])]]

\* the same columns in another order
shuffle_cols ==
  /\ \E j \in 1..(Len(df.cols) - 1) : df' = SwapColumns(df, j)
  /\ out' = <<>>
  /\ UNCHANGED Others

\* the same frame but for the value of one cell
set_cell ==
  /\ \E i \in 1..Len(df.rows), j \in 1..Len(df.cols), v \in Cells :
       /\ v # df.rows[i][j]
       /\ df' = [df EXCEPT !.rows[i][j] = v]
       /\ Homogeneous(df')
  /\ out' = <<>>
  /\ UNCHANGED Others

\* df.drop_duplicates(): of identical rows the first is kept
RECURSIVE DropDuplicates(_)
DropDuplicates(rows) ==
  IF rows = <<>> THEN <<>>
  ELSE LET front == SubSeq(rows, 1, Len(rows) - 1)
       IN IF rows[Len(rows)] \in Range(front) THEN DropDuplicates(front)
          ELSE Append(DropDuplicates(front), rows[Len(rows)])

drop_duplicates ==
  /\ df' = [df EXCEPT !.rows = DropDuplicates(@)]
  /\ df' # df
  /\ out' = <<>>
  /\ UNCHANGED Others

NextCanon ==
  \/ canonicalize
  \/ shuffle_rows
  \/ shuffle_cols
  \/ set_cell
  \/ drop_duplicates

SpecCanon == InitCanon /\ [][NextCanon]_vars

\* ================================================================== claims
AppendOps == {"add_etl_data_block", "add_block_from_ledger"}

Linked(c, i) == c[i + 1].previous_hash = c[i].hash

Sealed(b) == b.hash = calculate_hash(b)

\* the first `difficulty` characters of the hash exist and are '0'
LeadingZeros(b, difficulty) ==
  \A i \in 1..difficulty : i <= Len(b.hash) /\ b.hash[i] = 0

\* C1: a chain made by construction and successful appends is valid:
\* is_chain_valid() returns true, and for every i >= 1 block i names block
\* i-1's hash as its previous_hash and its stored hash is its calculate_hash().
C1_AppendedChainValid ==
  /\ is_chain_valid(chain).val
  /\ \A i \in 1..(Len(chain) - 1) : Linked(chain, i) /\ Sealed(chain[i + 1])

\* a full chain holding a block appended directly and one appended from the
\* ledger, on which is_chain_valid() has just returned
C1_Witness ==
  /\ Len(chain) = MaxChain
  /\ ret.op = "is_chain_valid"
  /\ \E i, j \in 2..Len(chain) :
       /\ chain[i].data.etl_metadata.etl_timestamp > 0
       /\ chain[j].data.etl_metadata.etl_timestamp = 0

\* C10: chain[0] has index 0, previous_hash "0", a hash equal to
\* calculate_hash() with `difficulty` leading '0' characters, in every state;
\* right after construction it is the only block.
C10_GenesisBlock ==
  /\ Len(chain) >= 1
  /\ chain[1].index = 0
  /\ chain[1].previous_hash = <<0>>
  /\ Sealed(chain[1])
  /\ LeadingZeros(chain[1], Difficulty)
  /\ (ret.op = "__init__" => Len(chain) = 1)

\* appends have filled the chain
C10_Witness ==
  /\ Len(chain) = MaxChain
  /\ ret.op \in AppendOps
  /\ ret.exc = ""

IsPrefix(c1, c2) == Len(c1) <= Len(c2) /\ SubSeq(c2, 1, Len(c1)) = c1

\* C8: a successful append makes the chain one block longer and leaves the
\* blocks it held unchanged and in place; no step other than load_blockchain
\* removes, reorders or edits a block already in the chain.
C8_GrowsOnlyByAppend ==
  [][ /\ ((ret'.op \in AppendOps /\ ret'.exc = ""
             /\ (add_etl_data_block \/ add_block_from_ledger))
            => (Len(chain') = Len(chain) + 1 /\ IsPrefix(chain, chain')))
      /\ (ret'.op # "load_blockchain" => IsPrefix(chain, chain'))
    ]_vars

\* a block appended from the ledger on top of an appended block
C8_Witness ==
  /\ Len(chain) = MaxChain
  /\ ret.op = "add_block_from_ledger"
  /\ ret.exc = ""
  /\ file.exists

\* C9 as claimed: on one chain object chain[0] never changes, whatever is
\* called (append, validate, save_blockchain, load_blockchain).
C9_GenesisNeverReplaced ==
  [][chain'[1] = chain[1]]_vars

\* C9 as amended: append, validate and save_blockchain leave chain[0] the block
\* construction created; a successful load_blockchain makes chain[0] the first
\* block of the file.
C9_GenesisKeptUntilLoad ==
  [][ /\ (ret'.op # "load_blockchain" => chain'[1] = chain[1])
      /\ ((ret'.op = "load_blockchain" /\ ret'.val = <<TRUE>>)
            => chain'[1] = LoadBlock(file.blockchain[1], now))
    ]_vars

\* appends, a save of the grown chain and a validation have run, and chain[0]
\* is a mined genesis block
C9_Witness ==
  /\ Len(chain) = MaxChain
  /\ file.exists
  /\ file.total_blocks >= 2
  /\ ret.op = "is_chain_valid"
  /\ chain[1] = mine_block(GenesisBlock(chain[1].timestamp), Difficulty)

\* the block with nonce n and the hash that goes with it
AtNonce(b, n) ==
  LET x == [b EXCEPT !.nonce = n] IN [x EXCEPT !.hash = calculate_hash(x)]

\* C3: when mine_block(d) returns on a freshly constructed block, the hash is
\* calculate_hash(), its first d characters are '0', and the nonce is the
\* smallest non-negative integer whose hash, with the block's other fields,
\* meets the target.
C3_MinedBlock ==
  pc = "done" =>
    /\ Sealed(blk)
    /\ LeadingZeros(blk, d)
    /\ \A n \in 0..(blk.nonce - 1) : ~LeadingZeros(AtNonce(blk, n), d)

\* mine_block(self.difficulty) has returned after at least two iterations
C3_Witness ==
  /\ pc = "done"
  /\ d = Difficulty
  /\ blk.nonce >= 2

\* C4 as claimed: whatever the difficulty d >= 0, the running loop has an exit
\* ahead of it: one of the next HashSpace nonces (every digest value occurs
\* among them) gives a hash that ends the loop.
C4_MiningAlwaysExits ==
  pc = "loop" =>
    \E n \in blk.nonce..(blk.nonce + HashSpace - 1) : MeetsTarget(AtNonce(blk, n), d)

\* C4 as amended: for every difficulty d from 0 to the length of the digest
\* the loop eventually exits, with a hash that meets the target.
C4_MiningTerminates ==
  (d <= DigestLen) => <>(pc = "done" /\ LeadingZeros(blk, d))

\* the loop has exited at the largest difficulty a digest can meet, after
\* iterating
C4_Witness ==
  /\ pc = "done"
  /\ d = DigestLen
  /\ blk.nonce >= 1

\* the smallest i >= 1 at which block i's stored hash is not its
\* calculate_hash() or its previous_hash is not block i-1's hash; 0 if none
Offenders(c) ==
  {i \in 1..(Len(c) - 1) : ~Sealed(c[i + 1]) \/ ~Linked(c, i)}

FirstOffender(c) ==
  IF Offenders(c) = {} THEN 0
  ELSE CHOOSE i \in Offenders(c) : \A j \in Offenders(c) : i <= j

\* every block is as construction and append leave it
BuiltByAppend(c) ==
  /\ \A k \in 1..Len(c) :
       Sealed(c[k]) /\ LeadingZeros(c[k], Difficulty) /\ c[k].index = k - 1
  /\ \A i \in 1..(Len(c) - 1) : Linked(c, i)

\* C2: on a chain built only by append, assigning a different value to one
\* field of a block i that has a successor (the genesis block included), with
\* no re-mining and no hash collision, makes is_chain_valid() return false,
\* the failure being at index i or i+1.
C2_TamperDetected ==
  [][ (/\ ret'.op = "setattr"
       /\ edits = 0
       /\ edits' = 1
       /\ ~file.exists
       /\ BuiltByAppend(chain)
       /\ ret'.val[1] + 1 < Len(chain)
       /\ (ret'.val[2] # "hash"
             => calculate_hash(chain'[ret'.val[1] + 1]) # chain[ret'.val[1] + 1].hash))
        => (/\ ~is_chain_valid(chain').val
            /\ FirstOffender(chain') \in {ret'.val[1], ret'.val[1] + 1})
    ]_vars

\* C5: save_blockchain followed by load_blockchain of the same file gives back
\* the chain that was saved: same length and order, every block's six fields
\* the saved values.
C5_RoundTripExact ==
  [][ (ret.op = "save_blockchain" /\ ret'.op = "load_blockchain")
        => chain' = chain ]_vars

\* C6: loading takes hash and nonce verbatim, and (the claim's equivalence,
\* from the serialized chain to the loaded one) a chain that is_chain_valid()
\* accepts when it is saved is accepted when it is loaded back.
C6_LoadKeepsValidity ==
  [][ (ret.op = "save_blockchain" /\ ret'.op = "load_blockchain")
        => /\ Len(chain') = Len(chain)
           /\ \A k \in 1..Len(chain) :
                chain'[k].hash = chain[k].hash /\ chain'[k].nonce = chain[k].nonce
           /\ (is_chain_valid(chain).val => is_chain_valid(chain').val)
    ]_vars

\* C7: when is_chain_valid() fails, what it returns carries the index of the
\* first offending block.
C7_ResultCarriesIndex ==
  (ret.op = "is_chain_valid" /\ ~ret.val[1])
    => (Len(ret.val) >= 2 /\ ret.val[2] = FirstOffender(chain))

\* C11: chain[i].index = i for every i, before and after every step; a
\* successful append creates its block with index = the length of the chain
\* before the append and previous_hash = the hash the last block had then, and
\* the block's nonce is the number of iterations mining ran from nonce 0: no
\* smaller nonce gives a hash that meets the target.
C11_IndexIsPosition ==
  [][ /\ \A k \in 1..Len(chain) : chain[k].index = k - 1
      /\ \A k \in 1..Len(chain') : chain'[k].index = k - 1
      /\ ((ret'.op \in AppendOps /\ ret'.exc = ""
             /\ (add_etl_data_block \/ add_block_from_ledger))
            => (/\ ret'.val[1] = chain'[Len(chain')]
                /\ ret'.val[1].index = Len(chain)
                /\ ret'.val[1].previous_hash = chain[Len(chain)].hash
                /\ ret'.val[1].nonce >= 0
                /\ \A n \in 0..(ret'.val[1].nonce - 1) :
                     ~LeadingZeros(AtNonce(ret'.val[1], n), Difficulty)))
    ]_vars

\* a chain saved with an appended block in it and appended to afterwards
C11_Witness ==
  /\ Len(chain) = MaxChain
  /\ file.exists
  /\ file.total_blocks = MaxChain - 1
  /\ ret.op \in AppendOps
  /\ ret.exc = ""
  /\ chain[MaxChain].nonce >= 1
  /\ chain[MaxChain - 1].timestamp < chain[MaxChain].timestamp

\* C12: when save_blockchain ends with an error, the chain file holds a
\* complete document (the one it held before the call or the new one): it
\* exists and its text runs to its end.
C12_SaveAllOrNothing ==
  (ret.op = "save_blockchain" /\ ret.exc # "" /\ pc = "idle")
    => (file.exists /\ file.closed)

\* C18: a load_blockchain that does not return True (the file is missing, or a
\* block object lacks a key) leaves self.chain what it was before the call.
C18_LoadAllOrNothing ==
  [][ (ret'.op = "load_blockchain" /\ ret'.val # <<TRUE>>) => chain' = chain ]_vars

\* C19: the chain always holds at least one block, and no append fails for
\* want of a latest block.
C19_ChainNeverEmpty ==
  /\ Len(chain) >= 1
  /\ (ret.op \in AppendOps => ret.exc # "IndexError")

\* C20: whenever is_chain_valid() has returned true, the hash of every block
\* of the chain begins with `difficulty` '0' characters.
C20_ValidImpliesMined ==
  (ret.op = "is_chain_valid" /\ ret.val[1])
    => \A k \in 1..Len(chain) : LeadingZeros(chain[k], Difficulty)

\* an entry as the ETL run on s1.csv and s2.csv writes it
WellFormed(entry) ==
  /\ LedgerKeys \subseteq DOMAIN entry
  /\ Len(entry.extraction_hashes) = 2
  /\ entry.extraction_hashes[1].path = "s1.csv"
  /\ entry.extraction_hashes[2].path = "s2.csv"

\* C16: on a ledger of n >= 1 well-formed entries add_block_from_ledger
\* appends exactly one block, whose payload holds the two extraction digests,
\* the dataset digest and the metadata of the last entry; and whatever the
\* ledger holds, the call does what it does on the ledger of the last entry
\* alone.
C16_BlockFromLastEntry ==
  [][ (ret'.op = "add_block_from_ledger" /\ ledger.exists /\ ledger.entries # <<>>
         /\ add_block_from_ledger)
        => LET last == ledger.entries[Len(ledger.entries)]
               alone == LedgerAddResult(chain, [ledger EXCEPT !.entries = <<last>>], now)
           IN /\ chain' = alone.chain
              /\ ret'.exc = alone.exc
              /\ (\A e \in 1..Len(ledger.entries) : WellFormed(ledger.entries[e]))
                   => /\ ret'.exc = ""
                      /\ Len(chain') = Len(chain) + 1
                      /\ IsPrefix(chain, chain')
                      /\ chain'[Len(chain')].data =
                           EtlData(last.extraction_hashes[1].sha256,
                                   last.extraction_hashes[2].sha256,
                                   last.deterministic_dataset_sha256,
                                   LedgerMeta(last), now)
    ]_vars

\* a block appended from a ledger of MaxEntries well-formed entries, the last
\* unlike the first
C16_Witness ==
  /\ ret.op = "add_block_from_ledger"
  /\ ret.exc = ""
  /\ Len(ledger.entries) = MaxEntries
  /\ \A e \in 1..Len(ledger.entries) : WellFormed(ledger.entries[e])
  /\ ledger.entries[1] # ledger.entries[Len(ledger.entries)]
  /\ chain[Len(chain)].data.dataset = ledger.entries[Len(ledger.entries)].deterministic_dataset_sha256

\* C17: add_block_from_ledger raises FileNotFoundError when the ledger file is
\* missing and raises an error when the ledger is empty or its last entry lacks
\* a key or a path matching s1.csv or s2.csv; whenever it raises, the chain is
\* what it was before the call.
C17_FailedAddKeepsChain ==
  [][ (ret'.op = "add_block_from_ledger" /\ add_block_from_ledger)
        => /\ (~ledger.exists => ret'.exc = "FileNotFoundError")
           /\ ((ledger.exists /\ ledger.entries = <<>>) => ret'.exc # "")
           /\ ((ledger.exists /\ ledger.entries # <<>>
                  /\ ~WellFormed(ledger.entries[Len(ledger.entries)])) => ret'.exc # "")
           /\ (ret'.exc # "" => chain' = chain)
    ]_vars

\* the call has failed on a last entry without a key, on a chain that holds
\* an appended block
C17_Witness ==
  /\ ret.op = "add_block_from_ledger"
  /\ ret.exc = "KeyError"
  /\ Len(chain) >= 2
  /\ Len(ledger.entries) = MaxEntries

\* C13: the same rows in another order, or the same columns in another order,
\* give the same bytes.
C13_PermutationInvariant ==
  [][ (shuffle_rows \/ shuffle_cols)
        => deterministic_csv_bytes(df') = deterministic_csv_bytes(df) ]_vars

\* C14: two frames of the same shape that differ in the value of exactly one
\* cell give different bytes.
C14_CellSensitive ==
  [][ set_cell => deterministic_csv_bytes(df') # deterministic_csv_bytes(df) ]_vars

\* the lines of a text that ends each line with a line break
RECURSIVE SplitLines(_, _)
SplitLines(bytes, line) ==
  IF bytes = <<>> THEN <<>>
  ELSE IF bytes[1] = CharCode("\n") THEN <<line>> \o SplitLines(Tail(bytes), <<>>)
  ELSE SplitLines(Tail(bytes), Append(line, bytes[1]))

Count(q, x) == Cardinality({i \in 1..Len(q) : q[i] = x})

\* C15: the bytes are the header line and exactly one record line per row of
\* the frame: each row's line occurs among the record lines as often as among
\* the rows (k identical rows give k identical record lines); and dropping
\* the duplicate rows of a frame that has some changes the bytes.
C15_OneLinePerRow ==
  [][ /\ (canonicalize
            => LET lines == SplitLines(out', <<>>)
                   records == SubSeq(lines, 2, Len(lines))
                   rs == reindex(df, SortedColumns(df.cols)).rows
                   line(r) == Encode(RowLine(rs, r))
               IN /\ Len(lines) = 1 + Len(df.rows)
                  /\ \A r \in 1..Len(df.rows) :
                       /\ Count(records, line(r))
                            = Cardinality({q \in 1..Len(df.rows) : line(q) = line(r)})
                       /\ Count(records, line(r)) >= Count(df.rows, df.rows[r]))
      /\ (drop_duplicates
            => deterministic_csv_bytes(df') # deterministic_csv_bytes(df))
    ]_vars

\* the bytes of a frame that holds a row three times and another row
C15_Witness ==
  /\ out # <<>>
  /\ Len(df.rows) = MaxCells
  /\ \E r \in 1..Len(df.rows) : Count(df.rows, df.rows[r]) = 3
====
